---- MODULE Spec2Model ----
(***************************************************************************)
(* Veloce thermal control: the ThermalControl object of                    *)
(* src/veloce/thermal_control.py, its text commands and its servo cycle    *)
(* job_doservo.                                                            *)
(*                                                                         *)
(* Numbers.  The program computes in floating point; the model computes    *)
(* in fixed point:                                                         *)
(*   voltages in millivolt, temperatures in millikelvin / millidegree,     *)
(*   x_est in millikelvin, u in milliwatt, PWM values as the integers      *)
(*   written to the LabJack (0 .. PWM_MAX), heater fractions in 1/1000.    *)
(* NaN is one extra value that every arithmetic operator propagates and    *)
(* every comparison answers FALSE on, as IEEE arithmetic does.             *)
(***************************************************************************)
EXTENDS Integers, Sequences, FiniteSets, TLC

\* ------------------------------------------------------------ constants

PWM_MAX == 1000000
\* HEATER_MAX = 3.409 W, in milliwatt
HEATER_MAX == 3409
\* self.setpoint = 25.0, in millidegree; no command changes it
SETPOINT == 25000
\* PID_GAIN_HZ = 0.002 and TEMP_DERIV = 0.00035, both in units of 1e-5
PID_GAIN_HZ == 200
TEMP_DERIV == 35
\* self.voltages = 99.9*ones, in millivolt
InitVolt == 99900
\* the sampling period lqg_dt of lqg_math, in seconds
lqg_dt == 1
\* the value of a float that is not a number
NaN == -999999999

HEATER_DIOS == <<"0", "2", "3", "4", "5">>
AIN_NAMES == <<"AIN0", "AIN2", "AIN4">>

\* Python indices of the heaters and of the sensors
Heaters == 0 .. (Len(HEATER_DIOS) - 1)
Sensors == 0 .. (Len(AIN_NAMES) - 1)

\* ------------------------------------------------------------ bounds

\* servo cycles run (the cap on nreads)
MaxCycles == 2

\* servo cycles of one run in which the commands are put on record
MaxTraced == 1

\* sensor reads that fail while the LabJack is open
MaxFails == 2

\* voltages the analog inputs deliver (AIN_ALL_RANGE is 1 V), in millivolt
VoltLevels == {-500, 0, 500}

\* ------------------------------------------------------------ arithmetic

IsNaN(a) == a = NaN

Add(a, b) == IF IsNaN(a) \/ IsNaN(b) THEN NaN ELSE a + b
Sub(a, b) == IF IsNaN(a) \/ IsNaN(b) THEN NaN ELSE a - b
Neg(a) == IF IsNaN(a) THEN NaN ELSE 0 - a
Lt(a, b) == ~IsNaN(a) /\ ~IsNaN(b) /\ a < b
Gt(a, b) == ~IsNaN(a) /\ ~IsNaN(b) /\ a > b

\* int(): truncation toward zero of the rational n/d, d > 0
Trunc(n, d) == IF n >= 0 THEN n \div d ELSE 0 - ((0 - n) \div d)

\* a matrix entry (in tenths) times a fixed-point value, rounded to the grid
Scale(m, a) == IF IsNaN(a) THEN NaN ELSE (m * a) \div 10

\* a * PWM_MAX / HEATER_MAX truncated toward zero, computed in two steps of
\* 1000 to stay inside the integers
PpmPos(a) == (((a * 1000) \div HEATER_MAX) * 1000)
             + ((((a * 1000) % HEATER_MAX) * 1000) \div HEATER_MAX)
Ppm(a) == IF IsNaN(a) THEN NaN ELSE IF a >= 0 THEN PpmPos(a) ELSE 0 - PpmPos(0 - a)

\* ------------------------------------------------------------ gettemp

\* gettemp(ix) on a stored voltage: resistance = R*(Vin - v)/(Vin + v), then the
\* Steinhart-Hart polynomial in log(resistance).  Beyond +-5 V the resistance
\* is negative and np.log gives nan; inside, the values are those of lines
\* 233-247 at the voltages of VoltLevels, rounded to the millidegree.
gettemp(v) ==
  IF v > 5000 \/ v < -5000 THEN NaN
  ELSE CASE v = -500 -> 20484
         [] v = 0 -> 25000
         [] v = 500 -> 29638

\* ------------------------------------------------------------ lqg_math

\* The plant and gain matrices that `from lqg_math import *` brings in, in
\* tenths: a three-state plant (ambient, heater, plate), one input, one output.
A_mat == << <<10, 0, 0>>, <<1, 8, 1>>, <<1, 2, 7>> >>
B_mat == <<0, 5, 0>>
C_mat == <<0, 0, 10>>
K_mat == <<3, 1, 5>>
L_mat == <<5, 10, 20>>

\* np.dot of one matrix row with a state vector
Dot(row, x) ==
  IF IsNaN(x[1]) \/ IsNaN(x[2]) \/ IsNaN(x[3]) THEN NaN
  ELSE (row[1] * x[1] + row[2] * x[2] + row[3] * x[3]) \div 10

\* ------------------------------------------------------------ LQG law

\* lines 300-301 (and again inside line 302): A*x_est + B*u
Predict(x, uu) == [i \in 1 .. 3 |-> Add(Dot(A_mat[i], x), Scale(B_mat[i], uu))]

\* the estimator update were line 301 (x_est_new += B*u) left out
EstimatorUpdate_NoInput(x, uu, y) ==
  LET x_est_new == [i \in 1 .. 3 |-> Dot(A_mat[i], x)]
      dummy == Sub(y, Dot(C_mat, Predict(x, uu)))
  IN  [i \in 1 .. 3 |-> Add(x_est_new[i], Scale(K_mat[i], dummy))]

\* lines 300-304: the new x_est from the old x_est, the stored u and y
EstimatorUpdate(x, uu, y) ==
  LET x_est_new == Predict(x, uu)
      dummy == Sub(y, Dot(C_mat, Predict(x, uu)))
  IN  [i \in 1 .. 3 |-> Add(x_est_new[i], Scale(K_mat[i], dummy))]

\* line 307: u = -L*x_est
RawControl(x) == Neg(Dot(L_mat, x))

\* the regulator clamp were lines 314-317 (the clamp at 1) left out
RegulatorClamp_NoUpperClamp(raw) ==
  LET fraction == Ppm(raw)
  IN  IF Lt(fraction, 0) THEN [u |-> 0, fraction |-> 0]
      ELSE [u |-> raw, fraction |-> fraction]

\* lines 310-317: fraction = u/HEATER_MAX clamped to [0,1] and u clamped with
\* it.  fraction is held as fraction*PWM_MAX.
RegulatorClamp(raw) ==
  LET fraction == Ppm(raw)
  IN  IF Lt(fraction, 0) THEN [u |-> 0, fraction |-> 0]
      ELSE IF Gt(fraction, PWM_MAX) THEN [u |-> HEATER_MAX, fraction |-> PWM_MAX]
      ELSE [u |-> raw, fraction |-> fraction]

\* ------------------------------------------------------------ PID law

\* pid_ints[c] += lqg_dt*t: pid_ints is an integer array, so the float sum is
\* truncated toward zero when it is stored
IntAdd(int, t) == Trunc(1000 * int + lqg_dt * t, 1000)

\* 0.5 + pid_gain*(setpoint - t) + pid_i*int with pid_gain =
\* PID_GAIN_HZ/TEMP_DERIV and pid_i = 0.5*PID_GAIN_HZ**2/TEMP_DERIV, as a
\* numerator over DriveDen
DriveDen == 2 * TEMP_DERIV * 100000
DriveNum(t, int) ==
  TEMP_DERIV * 100000 + 2 * PID_GAIN_HZ * 100 * (SETPOINT - t)
  + PID_GAIN_HZ * PID_GAIN_HZ * int

\* lines 343-348 / 352-357 and set_heater's int(fraction * PWM_MAX): clamp the
\* drive num/DriveDen to [0,1]; a clamped drive zeroes the integrator.  h is
\* the PWM value int(h * PWM_MAX).
PidClamp(num, int) ==
  IF num < 0 THEN [h |-> 0, int |-> 0, clamped |-> TRUE]
  ELSE IF num > DriveDen THEN [h |-> PWM_MAX, int |-> 0, clamped |-> TRUE]
  ELSE [h |-> Trunc(num, DriveDen \div PWM_MAX), int |-> int, clamped |-> FALSE]

\* ------------------------------------------------------------ state

VARIABLES
  handle_open,   \* whether the LabJack handle self.handle is open
  labjack_open,  \* self.labjack_open
  voltages,      \* self.voltages, by sensor index
  lqg,           \* self.lqg
  pid,           \* self.pid
  storedata,     \* self.storedata
  nreads,        \* self.nreads
  x_est,         \* self.x_est
  u,             \* self.u[0,0]
  pid_ints,      \* self.pid_ints, by channel 0, 1
  heaters,       \* the PWM value each heater's DIO<n>_EF_CONFIG_A holds
  pc,            \* where job_doservo stands ("idle": not running)
  ix,            \* the sensor the read loop is at
  attempt,       \* which read of that sensor comes next (1 or 2)
  tempnow,       \* the local tempnow
  out,           \* the PWM values the control law computed, to be written
  wr,            \* index into PidWrites of the next set_heater call
  cyc,           \* what the current (or last) cycle did, for the properties
  fresh,         \* the modes started by command and not yet run by a cycle
  nfails,        \* failed sensor reads of the open LabJack so far
  threaded,      \* whether the commands run in a thread of their own
  tracing        \* whether the commands run are put on record

vars == <<handle_open, labjack_open, voltages, lqg, pid, storedata, nreads,
          x_est, u, pid_ints, heaters, pc, ix, attempt, tempnow, out,
          wr, cyc, fresh, nfails, threaded,
          tracing>>

objvars == <<handle_open, labjack_open, voltages, lqg, pid, storedata, nreads,
             x_est, u, pid_ints, heaters, threaded,
             tracing>>
jobvars == <<pc, ix, attempt, tempnow, out, wr, cyc>>

\* lines 359-362: the heater and the drive (0: h0, 1: h1) of each set_heater call
PidWrites == << <<0, 1>>, <<1, 1>>, <<2, 1>>, <<3, 0>> >>

\* lines 289 and 337: the law a pair of flags selects
LawOf(l, p) == IF l THEN "lqg" ELSE IF p THEN "pid" ELSE "none"

\* the record kept of the last command run between two cycles, for the
\* properties: its name, what it returned (or raised), the tokens a HEATER
\* command carried and the heater it wrote (-1: none)
NoCmd == [name |-> "none", ret |-> "", in |-> <<>>, heater |-> -1]

\* the record kept of the cycle that runs or has just ended, for the
\* properties; the next command forgets it
NoCycle ==
  [x_est0 |-> <<0, 0, 0>>, u0 |-> 0, ints0 |-> <<0, 0>>,
   heaters0 |-> [h \in Heaters |-> 0], failed2 |-> {}, law |-> "none",
   y |-> 0, raw |-> 0, clamped |-> <<FALSE, FALSE>>, writes |-> <<>>,
   wfailed |-> FALSE, recorded |-> 0, end |-> "none", seen |-> {},
   nreads0 |-> 0, kept |-> {}, store0 |-> FALSE, cmd |-> NoCmd]

NewCycle ==
  [NoCycle EXCEPT !.x_est0 = x_est, !.u0 = u, !.ints0 = pid_ints,
                  !.heaters0 = heaters, !.end = "running",
                  !.seen = {LawOf(lqg, pid)}, !.nreads0 = nreads,
                  !.store0 = storedata]

\* __init__ with the LabJack opened: cmd_initialize has zeroed the heaters
Constructed ==
  /\ handle_open = TRUE
  /\ labjack_open = TRUE
  /\ voltages = [s \in Sensors |-> InitVolt]
  /\ lqg = FALSE
  /\ pid = FALSE
  /\ storedata = FALSE
  /\ nreads = 0
  /\ x_est = <<0, 0, 0>>
  /\ u = 0
  /\ pid_ints = <<0, 0>>
  /\ heaters = [h \in Heaters |-> 0]
  /\ pc = "idle"
  /\ ix = 0
  /\ attempt = 1
  /\ tempnow = 0
  /\ out = <<0, 0>>
  /\ wr = 1
  /\ cyc = NoCycle
  /\ fresh = {}
  /\ nfails = 0

Init == Constructed /\ threaded = FALSE /\ tracing = FALSE

InitConc == Constructed /\ threaded = TRUE /\ tracing = FALSE

InitCmd == Constructed /\ threaded = FALSE /\ tracing = TRUE

\* ------------------------------------------------------------ commands

\* the tokens a HEATER command can carry: ok says whether int() / float()
\* accepts the token, v is the number it yields (fractions in 1/1000)
IndexTokens ==
  {[ok |-> FALSE, v |-> 0]} \cup {[ok |-> TRUE, v |-> i] : i \in {-6, -1, 4, 5}}
FractionTokens ==
  {[ok |-> FALSE, v |-> 0]}
  \cup {[ok |-> TRUE, v |-> f] : f \in {-500, 0, 1000, 1500, NaN}}

\* a mode command that lands inside a running cycle is noted in the cycle's record
NoteMode(l, p) ==
  cyc' = IF pc = "idle" THEN NoCycle ELSE [cyc EXCEPT !.seen = @ \cup {LawOf(l, p)}]

\* a command run between two cycles is put on record in place of the cycle
Remember(c) ==
  cyc' = IF pc # "idle" THEN cyc
         ELSE IF tracing THEN [NoCycle EXCEPT !.cmd = c] ELSE NoCycle

\* the cycles of one run
Cycles == IF tracing THEN MaxTraced ELSE MaxCycles

\* when a command can run: between two cycles when the server runs commands
\* and cycles in one loop, at any point when the commands have their own
\* thread; a run ends with its last cycle
Allowed ==
  IF threaded THEN pc # "idle" \/ nreads < Cycles
  ELSE pc = "idle" /\ nreads < Cycles

cmdframe == <<pc, ix, attempt, tempnow, out, wr, threaded, tracing>>

\* lines 80-105: raises when labjack_open is false or the writes fail, else
\* every heater's CONFIG_A is written 0
cmd_initialize ==
  /\ Allowed
  /\ heaters' = IF labjack_open /\ handle_open THEN [h \in Heaters |-> 0]
                ELSE heaters
  /\ UNCHANGED <<handle_open, labjack_open, voltages, lqg, pid, storedata,
                 nreads, x_est, u, pid_ints, fresh, nfails>>
  /\ Remember([NoCmd EXCEPT !.name = "initialize",
                            !.ret = IF ~labjack_open THEN "raise: Labjack not open!"
                                    ELSE IF ~handle_open THEN "raise: ljm"
                                    ELSE "None"])
  /\ UNCHANGED cmdframe

\* lines 109-111: ljm.close raises on a handle already closed
cmd_close ==
  /\ Allowed
  /\ handle_open' = FALSE
  /\ labjack_open' = IF handle_open THEN TRUE ELSE labjack_open
  /\ UNCHANGED <<voltages, lqg, pid, storedata, nreads, x_est, u, pid_ints,
                 heaters, fresh, nfails>>
  /\ Remember([NoCmd EXCEPT !.name = "close",
                            !.ret = IF handle_open THEN "Labjack connection closed."
                                    ELSE "raise: ljm"])
  /\ UNCHANGED cmdframe

\* HEATER_DIOS[dio_index]: Python accepts -len .. len-1
IndexOk(i) == i >= 0 - Len(HEATER_DIOS) /\ i < Len(HEATER_DIOS)
HeaterOf(i) == IF i < 0 THEN i + Len(HEATER_DIOS) ELSE i

\* lines 118-145: what cmd_heater returns (or raises) and the write it makes:
\* heater = -1 stands for no write
HeaterCommand(ntokens, index, fraction) ==
  IF ntokens # 3 THEN [ret |-> "Useage: HEATER [heater_index] [fraction]", heater |-> -1, value |-> 0]
  ELSE IF ~index.ok THEN [ret |-> "ERROR: heater_index must be an integer", heater |-> -1, value |-> 0]
  ELSE IF ~IndexOk(index.v) THEN [ret |-> "ERROR: heater_index out of range", heater |-> -1, value |-> 0]
  ELSE IF ~fraction.ok THEN [ret |-> "ERROR: fraction must be between 0.0 and 1.0", heater |-> -1, value |-> 0]
  ELSE IF Lt(fraction.v, 0) \/ Gt(fraction.v, 1000)
       THEN [ret |-> "ERROR: fraction must be between 0.0 and 1.0", heater |-> -1, value |-> 0]
  ELSE IF ~labjack_open THEN [ret |-> "raise: Labjack not open!", heater |-> -1, value |-> 0]
  ELSE IF IsNaN(fraction.v) THEN [ret |-> "raise: ValueError", heater |-> -1, value |-> 0]
  ELSE IF ~handle_open THEN [ret |-> "raise: ljm", heater |-> -1, value |-> 0]
  ELSE [ret |-> "Done.", heater |-> HeaterOf(index.v), value |-> fraction.v * (PWM_MAX \div 1000)]

cmd_heater ==
  /\ Allowed
  /\ \E ntokens \in {2, 3}, index \in IndexTokens, fraction \in FractionTokens :
       LET r == HeaterCommand(ntokens, index, fraction)
       IN  /\ heaters' = (IF r.heater >= 0
                           THEN [heaters EXCEPT ![r.heater] = r.value]
                           ELSE heaters)
           /\ Remember([name |-> "heater", ret |-> r.ret,
                        in |-> <<ntokens, index, fraction>>,
                        heater |-> r.heater])
  /\ UNCHANGED <<handle_open, labjack_open, voltages, lqg, pid, storedata,
                 nreads, x_est, u, pid_ints, fresh, nfails>>
  /\ UNCHANGED cmdframe

cmd_lqgstart ==
  /\ Allowed
  /\ lqg' = TRUE
  /\ fresh' = fresh \cup {"lqg"}
  /\ UNCHANGED nfails
  /\ NoteMode(TRUE, pid)
  /\ UNCHANGED <<handle_open, labjack_open, voltages, pid, storedata, nreads,
                 x_est, u, pid_ints, heaters>>
  /\ UNCHANGED cmdframe

cmd_lqgstop ==
  /\ Allowed
  /\ lqg' = FALSE
  /\ fresh' = fresh \ {"lqg"}
  /\ UNCHANGED nfails
  /\ NoteMode(FALSE, pid)
  /\ UNCHANGED <<handle_open, labjack_open, voltages, pid, storedata, nreads,
                 x_est, u, pid_ints, heaters>>
  /\ UNCHANGED cmdframe

cmd_pidstart ==
  /\ Allowed
  /\ pid' = TRUE
  /\ fresh' = fresh \cup {"pid"}
  /\ UNCHANGED nfails
  /\ NoteMode(lqg, TRUE)
  /\ UNCHANGED <<handle_open, labjack_open, voltages, lqg, storedata, nreads,
                 x_est, u, pid_ints, heaters>>
  /\ UNCHANGED cmdframe

cmd_pidstop ==
  /\ Allowed
  /\ pid' = FALSE
  /\ fresh' = fresh \ {"pid"}
  /\ UNCHANGED nfails
  /\ NoteMode(lqg, FALSE)
  /\ UNCHANGED <<handle_open, labjack_open, voltages, lqg, storedata, nreads,
                 x_est, u, pid_ints, heaters>>
  /\ UNCHANGED cmdframe

cmd_startrec ==
  /\ Allowed
  /\ storedata' = TRUE
  /\ UNCHANGED <<handle_open, labjack_open, voltages, lqg, pid, nreads, x_est,
                 u, pid_ints, heaters, fresh, nfails>>
  /\ Remember([NoCmd EXCEPT !.name = "startrec"])
  /\ UNCHANGED cmdframe

cmd_stoprec ==
  /\ Allowed
  /\ storedata' = FALSE
  /\ UNCHANGED <<handle_open, labjack_open, voltages, lqg, pid, nreads, x_est,
                 u, pid_ints, heaters, fresh, nfails>>
  /\ Remember([NoCmd EXCEPT !.name = "stoprec"])
  /\ UNCHANGED cmdframe

Command ==
  \/ cmd_initialize
  \/ cmd_close
  \/ cmd_heater
  \/ cmd_lqgstart
  \/ cmd_lqgstop
  \/ cmd_pidstart
  \/ cmd_pidstop
  \/ cmd_startrec
  \/ cmd_stoprec

\* ------------------------------------------------------------ job_doservo

\* job_doservo is left, by return or by an exception: its locals are gone
Leave(c, how) ==
  /\ pc' = "idle"
  /\ cyc' = [c EXCEPT !.end = how]
  /\ ix' = 0
  /\ attempt' = 1
  /\ tempnow' = 0
  /\ out' = <<0, 0>>
  /\ wr' = 1

\* line 268: the cycle starts after the sleep
StartCycle ==
  /\ pc = "idle"
  /\ nreads < Cycles
  /\ pc' = "read"
  /\ ix' = 0
  /\ attempt' = 1
  /\ cyc' = NewCycle
  /\ UNCHANGED <<tempnow, out, wr, fresh, nfails>>
  /\ UNCHANGED objvars

\* the read loop moves to the next sensor, or leaves the loop
NextSensor ==
  IF ix < Len(AIN_NAMES) - 1
  THEN /\ ix' = ix + 1
       /\ attempt' = 1
       /\ pc' = "read"
  ELSE /\ pc' = "count"
       /\ ix' = 0
       /\ attempt' = 1

\* lines 271 and 277: eReadName returns a voltage
ReadOk ==
  /\ pc = "read"
  /\ handle_open
  /\ \E v \in VoltLevels : voltages' = [voltages EXCEPT ![ix] = v]
  /\ NextSensor
  /\ UNCHANGED <<threaded, tracing, handle_open, labjack_open, lqg, pid, storedata,
                 nreads, x_est, u, pid_ints, heaters>>
  /\ UNCHANGED <<tempnow, out, wr, cyc, fresh, nfails>>

\* lines 272-280: eReadName raises; the first time the read is tried again, the
\* second time the sensor is given up and its voltage stays
ReadFail ==
  /\ pc = "read"
  /\ ~handle_open \/ nfails < MaxFails
  /\ nfails' = IF handle_open THEN nfails + 1 ELSE nfails
  /\ IF attempt = 1
     THEN /\ attempt' = 2
          /\ UNCHANGED <<pc, ix, cyc>>
     ELSE /\ cyc' = [cyc EXCEPT !.failed2 = @ \cup {ix},
                                !.kept = @ \cup {<<ix, voltages[ix]>>}]
          /\ NextSensor
  /\ UNCHANGED <<tempnow, out, wr, fresh>>
  /\ UNCHANGED objvars

\* lines 281-287
CountRead ==
  /\ pc = "count"
  /\ nreads' = nreads + 1
  /\ tempnow' = gettemp(voltages[0])
  /\ pc' = "select"
  /\ UNCHANGED <<threaded, tracing, handle_open, labjack_open, voltages, lqg, pid, storedata,
                 x_est, u, pid_ints, heaters>>
  /\ UNCHANGED <<ix, attempt, out, wr, cyc, fresh, nfails>>

\* lines 289 and 337 were the PID test to come first
SelectLqg_PidFirst ==
  /\ pc = "select"
  /\ IF lqg /\ ~pid THEN /\ pc' = "lqg"
                         /\ cyc' = [cyc EXCEPT !.law = "lqg"]
     ELSE /\ pc' = "elif"
          /\ UNCHANGED cyc
  /\ UNCHANGED <<ix, attempt, tempnow, out, wr, fresh, nfails>>
  /\ UNCHANGED objvars

\* line 289: if self.lqg
SelectLqg ==
  /\ pc = "select"
  /\ IF lqg THEN /\ pc' = "lqg"
                 /\ cyc' = [cyc EXCEPT !.law = "lqg"]
     ELSE /\ pc' = "elif"
          /\ UNCHANGED cyc
  /\ UNCHANGED <<ix, attempt, tempnow, out, wr, fresh, nfails>>
  /\ UNCHANGED objvars

\* line 337 were it a plain else: the PID law runs whenever lqg is false
SelectPid_Else ==
  /\ pc = "elif"
  /\ pc' = "pid"
  /\ cyc' = [cyc EXCEPT !.law = "pid"]
  /\ UNCHANGED <<ix, attempt, tempnow, out, wr, fresh, nfails>>
  /\ UNCHANGED objvars

\* line 337: elif self.pid
SelectPid ==
  /\ pc = "elif"
  /\ IF pid THEN /\ pc' = "pid"
                 /\ cyc' = [cyc EXCEPT !.law = "pid"]
     ELSE /\ pc' = "record"
          /\ cyc' = [cyc EXCEPT !.law = "none"]
  /\ UNCHANGED <<ix, attempt, tempnow, out, wr, fresh, nfails>>
  /\ UNCHANGED objvars

\* lines 295-323: the estimator update, the regulator and its clamp; int() of
\* a nan fraction raises ValueError at line 323
LqgLaw ==
  /\ pc = "lqg"
  /\ LET y == Sub(tempnow, SETPOINT)
         x_est_new == EstimatorUpdate(x_est, u, y)
         raw == RawControl(x_est_new)
         r == RegulatorClamp(raw)
         c == [cyc EXCEPT !.y = y, !.raw = raw]
     IN  /\ x_est' = x_est_new
         /\ u' = r.u
         /\ IF IsNaN(r.fraction)
            THEN Leave(c, "raised")
            ELSE /\ out' = <<r.fraction, 0>>
                 /\ pc' = "lqgwrite"
                 /\ cyc' = c
                 /\ UNCHANGED <<ix, attempt, tempnow, wr>>
  /\ fresh' = fresh \ {"lqg"}
  /\ UNCHANGED nfails
  /\ UNCHANGED <<threaded, tracing, handle_open, labjack_open, voltages, lqg, pid, storedata,
                 nreads, pid_ints, heaters>>

\* line 325: eWriteNames to heater 0 succeeds
LqgWriteOk ==
  /\ pc = "lqgwrite"
  /\ handle_open
  /\ heaters' = [heaters EXCEPT ![0] = out[1]]
  /\ cyc' = [cyc EXCEPT !.writes = Append(@, <<0, out[1]>>)]
  /\ pc' = "record"
  /\ UNCHANGED <<threaded, tracing, handle_open, labjack_open, voltages, lqg, pid, storedata,
                 nreads, x_est, u, pid_ints>>
  /\ UNCHANGED <<ix, attempt, tempnow, out, wr, fresh, nfails>>

\* line 325 were a failed write to drop the controller to idle
LqgWriteFail_ModeOff ==
  /\ pc = "lqgwrite"
  /\ Leave([cyc EXCEPT !.wfailed = TRUE], "raised")
  /\ lqg' = FALSE
  /\ UNCHANGED <<fresh, nfails>>
  /\ UNCHANGED <<threaded, tracing, handle_open, labjack_open, voltages, pid,
                 storedata, nreads, x_est, u, pid_ints, heaters>>

\* line 325: eWriteNames raises
LqgWriteFail ==
  /\ pc = "lqgwrite"
  /\ Leave([cyc EXCEPT !.wfailed = TRUE], "raised")
  /\ UNCHANGED <<fresh, nfails>>
  /\ UNCHANGED objvars

\* lines 340-357.  Storing a nan into the integer array pid_ints raises
\* ValueError: at line 341 for t0, at line 350 for t1.
PidLaw ==
  /\ pc = "pid"
  /\ LET t0 == gettemp(voltages[1])
         t1 == gettemp(voltages[2])
     IN  IF IsNaN(t0)
         THEN /\ Leave(cyc, "raised")
              /\ UNCHANGED pid_ints
         ELSE LET c0 == PidClamp(DriveNum(t0, IntAdd(pid_ints[1], t0)),
                                 IntAdd(pid_ints[1], t0))
              IN  IF IsNaN(t1)
                  THEN /\ pid_ints' = <<c0.int, pid_ints[2]>>
                       /\ Leave([cyc EXCEPT !.clamped = <<c0.clamped, FALSE>>], "raised")
                  ELSE LET c1 == PidClamp(DriveNum(t1, pid_ints[2]), pid_ints[2])
                       IN  /\ pid_ints' = <<IntAdd(c0.int, t1), c1.int>>
                           /\ out' = <<c0.h, c1.h>>
                           /\ wr' = 1
                           /\ pc' = "pidwrite"
                           /\ cyc' = [cyc EXCEPT !.clamped = <<c0.clamped, c1.clamped>>]
                           /\ UNCHANGED <<ix, attempt, tempnow>>
  /\ fresh' = fresh \ {"pid"}
  /\ UNCHANGED nfails
  /\ UNCHANGED <<threaded, tracing, handle_open, labjack_open, voltages, lqg, pid, storedata,
                 nreads, x_est, u, heaters>>

\* lines 359-362: one set_heater call writes its heater
PidWriteOk ==
  /\ pc = "pidwrite"
  /\ handle_open
  /\ LET h == PidWrites[wr][1]
         v == out[PidWrites[wr][2] + 1]
     IN  /\ heaters' = [heaters EXCEPT ![h] = v]
         /\ cyc' = [cyc EXCEPT !.writes = Append(@, <<h, v>>)]
  /\ IF wr < Len(PidWrites) THEN /\ wr' = wr + 1
                                 /\ UNCHANGED pc
     ELSE /\ pc' = "record"
          /\ UNCHANGED wr
  /\ UNCHANGED <<threaded, tracing, handle_open, labjack_open, voltages, lqg, pid, storedata,
                 nreads, x_est, u, pid_ints>>
  /\ UNCHANGED <<ix, attempt, tempnow, out, fresh, nfails>>

\* set_heater line 212: eWriteNames raises
PidWriteFail ==
  /\ pc = "pidwrite"
  /\ Leave([cyc EXCEPT !.wfailed = TRUE], "raised")
  /\ UNCHANGED <<fresh, nfails>>
  /\ UNCHANGED objvars

\* lines 370-374: log the temperatures if recording, and return
Record ==
  /\ pc = "record"
  /\ Leave([cyc EXCEPT !.recorded = IF storedata THEN 1 ELSE 0], "returned")
  /\ UNCHANGED <<threaded, tracing, handle_open, labjack_open, voltages, lqg, pid, storedata,
                 nreads, x_est, u, pid_ints, heaters>>
  /\ UNCHANGED <<fresh, nfails>>

Servo ==
  \/ StartCycle
  \/ ReadOk
  \/ ReadFail
  \/ CountRead
  \/ SelectLqg
  \/ SelectPid
  \/ LqgLaw
  \/ LqgWriteOk
  \/ LqgWriteFail
  \/ PidLaw
  \/ PidWriteOk
  \/ PidWriteFail
  \/ Record

\* ------------------------------------------------------------ specifications

\* The server runs the commands between servo cycles.
Next ==
  \/ Servo
  \/ Command

Spec == Init /\ [][Next]_vars

\* The mode commands run in a thread of their own, at any point of a servo
\* cycle.
NextConc ==
  \/ Servo
  \/ cmd_lqgstart
  \/ cmd_lqgstop
  \/ cmd_pidstart
  \/ cmd_pidstop

SpecConc == InitConc /\ [][NextConc]_vars

\* The commands between cycles, each put on record, and one servo cycle.
SpecCmd == InitCmd /\ [][Next]_vars

\* ------------------------------------------------------------ properties

\* the cycle on record has passed lines 289 / 337: its law is chosen
Decided == cyc.end # "none" /\ pc \notin {"read", "count", "select", "elif"}

\* the cycle on record has run the LQG law (lines 295-323)
LqgRan == Decided /\ cyc.law = "lqg" /\ pc # "lqg"

\* the cycle on record has run the PID law (lines 340-357)
PidRan == Decided /\ cyc.law = "pid" /\ pc # "pid"

\* C1: every PWM value written to a heater, by the LQG law, by the PID law
\* through set_heater or by cmd_heater, lies in [0, PWM_MAX] (a duty fraction
\* in [0,1]): the value every heater holds, every value a cycle has written
\* and every value a law has computed for writing.
C1_DutyInRange ==
  /\ \A h \in Heaters : heaters[h] >= 0 /\ heaters[h] <= PWM_MAX
  /\ \A k \in 1 .. Len(cyc.writes) :
       cyc.writes[k][2] >= 0 /\ cyc.writes[k][2] <= PWM_MAX
  /\ pc = "lqgwrite" => (out[1] >= 0 /\ out[1] <= PWM_MAX)
  /\ pc = "pidwrite" => \A c \in 1 .. 2 : out[c] >= 0 /\ out[c] <= PWM_MAX

\* C1 witness: all three writers have written: cmd_heater the Cryostat heater,
\* an earlier PID cycle heater 3, and this LQG cycle a clamped drive to heater 0
C1_Witness ==
  /\ LqgRan
  /\ cyc.raw > HEATER_MAX
  /\ cyc.writes = << <<0, PWM_MAX>> >>
  /\ heaters[3] = PWM_MAX
  /\ heaters[4] = PWM_MAX

\* C2: a cycle in which both reads of some sensor failed writes no heater and
\* leaves x_est and u as they were before the cycle.
C2_FailedReadSkipsControl ==
  (cyc.end # "none" /\ cyc.failed2 # {}) =>
    (cyc.writes = <<>> /\ x_est = cyc.x_est0 /\ u = cyc.u0)

\* C3: once the PID law has run, the integrator of every channel whose drive
\* was clamped is 0.
C3_AntiWindup ==
  PidRan => \A c \in 1 .. 2 : cyc.clamped[c] => pid_ints[c] = 0

\* C4: the flags lqg and pid are never both true.
C4_ModeExclusive == ~(lqg /\ pid)

\* C5: the law a cycle runs is the law that the pair (lqg, pid) selected at
\* some one instant of that cycle; in particular a cycle that runs no law saw
\* both flags false at some instant.
C5_LawFromOneInstant == Decided => cyc.law \in cyc.seen

\* C6: the first LQG cycle after cmd_lqgstart starts from x_est = 0 and u = 0,
\* and the first PID cycle after cmd_pidstart starts from pid_ints = 0.
C6_ResetOnStart ==
  /\ (pc = "lqg" /\ "lqg" \in fresh) => (x_est = <<0, 0, 0>> /\ u = 0)
  /\ (pc = "pid" /\ "pid" \in fresh) => pid_ints = <<0, 0>>

\* C7: a cycle in which a heater write failed is not ended by that failure:
\* it goes on to its remaining steps and returns.
C7_WriteFailureContinues == cyc.wfailed => cyc.end # "raised"

\* C8: a cycle run with lqg and pid both false chooses no law, writes no
\* heater and leaves the heaters, x_est, u and pid_ints as they were, so the
\* heaters hold their last commanded duty through idle cycles.
C8_IdleHolds ==
  (cyc.end # "none" /\ ~lqg /\ ~pid) =>
    /\ Decided => cyc.law = "none"
    /\ cyc.writes = <<>>
    /\ heaters = cyc.heaters0
    /\ x_est = cyc.x_est0
    /\ u = cyc.u0
    /\ pid_ints = cyc.ints0

\* C8 witness: an idle cycle has returned after an earlier cycle drove the
\* heaters and the estimator, and all of it is still there
C8_Witness ==
  /\ cyc.end = "returned"
  /\ ~lqg /\ ~pid
  /\ cyc.law = "none"
  /\ heaters[0] = PWM_MAX
  /\ u = HEATER_MAX
  /\ x_est # <<0, 0, 0>>

\* C9: once the LQG law has run with raw control r = -L*x_est, the fraction
\* for heater 0 is 0 if r < 0, 1 if r > HEATER_MAX and r/HEATER_MAX otherwise,
\* and the stored u is the clamped control, in [0, HEATER_MAX].
C9_RegulatorClamp ==
  LqgRan =>
    /\ u >= 0 /\ u <= HEATER_MAX
    /\ u = (IF cyc.raw < 0 THEN 0
            ELSE IF cyc.raw > HEATER_MAX THEN HEATER_MAX ELSE cyc.raw)
    /\ pc = "lqgwrite" => out[1] = Ppm(u)

\* C10: once the LQG law has run, x_est is the one-step predict-and-correct
\* update of the x_est and u it started from: p = A*x_est + B*u,
\* x_est' = p + K*(y - C*p) with y = temperature of sensor 0 - setpoint; with
\* a zero innovation y - C*p, x_est' = p.
C10_PredictCorrect ==
  LqgRan =>
    LET y == Sub(gettemp(voltages[0]), SETPOINT)
        p == [i \in 1 .. 3 |->
                Add(Dot(A_mat[i], cyc.x_est0), Scale(B_mat[i], cyc.u0))]
        innovation == Sub(y, Dot(C_mat, p))
    IN  /\ x_est = [i \in 1 .. 3 |-> Add(p[i], Scale(K_mat[i], innovation))]
        /\ innovation = 0 => x_est = p

\* C10 witness: an LQG cycle that started from a nonzero estimate and a
\* nonzero stored control, with a nonzero innovation
C10_Witness ==
  /\ LqgRan
  /\ cyc.u0 = HEATER_MAX
  /\ cyc.x_est0 # <<0, 0, 0>>
  /\ ~IsNaN(x_est[1])
  /\ x_est # Predict(cyc.x_est0, cyc.u0)

\* C11: once the PID law has run on two finite readings, the integrator of
\* each channel c whose drive was not clamped is the integrator the cycle
\* started with plus lqg_dt times channel c's own reading (channel 1 reads
\* sensor 1, channel 2 reads sensor 2), whatever the other channel read.
C11_IndependentIntegrators ==
  (PidRan /\ ~IsNaN(gettemp(voltages[1])) /\ ~IsNaN(gettemp(voltages[2]))) =>
    \A c \in 1 .. 2 :
      ~cyc.clamped[c] => pid_ints[c] = IntAdd(cyc.ints0[c], gettemp(voltages[c]))

\* C12: each sensor is read at most twice in a cycle, the second time only
\* after a failed read; nreads is counted exactly once per cycle; a channel
\* given up after two failed reads keeps the voltage it had; and whatever
\* reads failed, a cycle in which no heater write failed ends by returning.
C12_ReadRetry ==
  /\ attempt \in {1, 2}
  /\ attempt = 2 => (~handle_open \/ nfails >= 1)
  /\ cyc.end # "none" =>
       /\ nreads = (IF pc \in {"read", "count"} THEN cyc.nreads0
                    ELSE cyc.nreads0 + 1)
       /\ \A k \in cyc.kept : voltages[k[1]] = k[2]
       /\ cyc.end = "raised" => cyc.wfailed

\* C13: a cycle that has ended appended one TEMPS record if storedata is true
\* and none if it is false, whatever law it ran; storedata is true after
\* cmd_startrec, false after cmd_stoprec, and no cycle changes it.
C13_RecordFollowsFlag ==
  /\ cyc.cmd.name = "startrec" => storedata
  /\ cyc.cmd.name = "stoprec" => ~storedata
  /\ cyc.end # "none" => storedata = cyc.store0
  /\ cyc.end \in {"returned", "raised"} =>
       cyc.recorded = (IF storedata THEN 1 ELSE 0)

\* C14: a step that changes lqg or pid is a step of a mode command: it is no
\* step of job_doservo (it leaves the cycle's position and locals alone) and
\* it changes nothing else of the controller.
C14_ModeOnlyByCommand ==
  [][(lqg' # lqg \/ pid' # pid) =>
       UNCHANGED <<pc, ix, attempt, wr, tempnow, out, handle_open, labjack_open,
                   voltages, storedata, nreads, x_est, u, pid_ints, heaters,
                   nfails>>]_vars

\* C14 witness: a second cycle has ended on a failed heater write after a
\* sensor was given up, and both flags are still as commanded
C14_Witness ==
  /\ cyc.end = "raised"
  /\ cyc.wfailed
  /\ cyc.failed2 # {}
  /\ nreads = MaxCycles
  /\ lqg /\ ~pid

\* C15: a HEATER command writes a heater only when it has three tokens, its
\* index is an integer in 0 .. len(HEATER_DIOS)-1 and its fraction is a number
\* in [0,1], and then it writes the heater of that index; for every other
\* input it writes nothing and returns the usage or ERROR string of the first
\* test that fails.
C15_HeaterValidates ==
  cyc.cmd.name = "heater" =>
    LET ntokens == cyc.cmd.in[1]
        index == cyc.cmd.in[2]
        fraction == cyc.cmd.in[3]
        fractionOk == fraction.ok /\ ~IsNaN(fraction.v)
                      /\ fraction.v >= 0 /\ fraction.v <= 1000
        valid == ntokens = 3 /\ index.ok /\ index.v \in Heaters /\ fractionOk
    IN  /\ cyc.cmd.heater >= 0 => (valid /\ cyc.cmd.heater = index.v)
        /\ ~valid =>
             /\ cyc.cmd.heater = -1
             /\ cyc.cmd.ret =
                  (IF ntokens # 3 THEN "Useage: HEATER [heater_index] [fraction]"
                   ELSE IF ~index.ok THEN "ERROR: heater_index must be an integer"
                   ELSE IF index.v \notin Heaters THEN "ERROR: heater_index out of range"
                   ELSE "ERROR: fraction must be between 0.0 and 1.0")

\* C16: a cycle run with lqg true chooses the LQG law, also when pid is true:
\* x_est is the one estimator update of the x_est it started with, heater 0
\* is the only heater written, at most once, and pid_ints is as the cycle
\* found it; a cycle run with lqg false and pid true chooses the PID law and
\* leaves x_est and u as it found them.
C16_OneLawLqgFirst ==
  Decided =>
    /\ lqg =>
         /\ cyc.law = "lqg"
         /\ pid_ints = cyc.ints0
         /\ Len(cyc.writes) <= 1
         /\ \A k \in 1 .. Len(cyc.writes) : cyc.writes[k][1] = 0
         /\ \A h \in Heaters \ {0} : heaters[h] = cyc.heaters0[h]
         /\ x_est = (IF LqgRan
                     THEN EstimatorUpdate(cyc.x_est0, cyc.u0, cyc.y)
                     ELSE cyc.x_est0)
    /\ (~lqg /\ pid) =>
         /\ cyc.law = "pid"
         /\ x_est = cyc.x_est0
         /\ u = cyc.u0

\* C16 witness: with both flags true a cycle has run the LQG law and written
\* heater 0, and the integrators an earlier PID cycle left are untouched
C16_Witness ==
  /\ lqg /\ pid
  /\ LqgRan
  /\ cyc.writes = << <<0, PWM_MAX>> >>
  /\ cyc.ints0 # <<0, 0>>
  /\ pid_ints = cyc.ints0

\* C17: labjack_open is true only while the LabJack handle is open: it is
\* false after cmd_close, and with the handle closed cmd_initialize and a
\* validly formed HEATER command raise 'Labjack not open!' and write nothing.
C17_FlagTracksHandle ==
  /\ labjack_open => handle_open
  /\ cyc.cmd.name = "close" => ~labjack_open
  /\ (~handle_open /\ cyc.cmd.name = "initialize") =>
       cyc.cmd.ret = "raise: Labjack not open!"
  /\ (/\ ~handle_open
      /\ cyc.cmd.name = "heater"
      /\ cyc.cmd.in[1] = 3
      /\ cyc.cmd.in[2].ok /\ cyc.cmd.in[2].v \in Heaters
      /\ cyc.cmd.in[3].ok /\ cyc.cmd.in[3].v \in 0 .. 1000) =>
       (cyc.cmd.ret = "raise: Labjack not open!" /\ cyc.cmd.heater = -1)

\* the heater writes a cycle has issued: those that succeeded and the one
\* that failed (a failed write ends the cycle)
Issued == Len(cyc.writes) + (IF cyc.wfailed THEN 1 ELSE 0)

\* C18: a PID cycle that has ended issued exactly four heater writes, to
\* heaters 0, 1, 2, 3 in that order, heaters 0-2 with the drive computed from
\* sensor 2 and heater 3 with the drive computed from sensor 1; an LQG cycle
\* that has ended issued exactly one write, to heater 0; no cycle writes
\* heater 4.
C18_ActuatorMapping ==
  cyc.end # "none" =>
    /\ \A k \in 1 .. Len(cyc.writes) : cyc.writes[k][1] # 4
    /\ heaters[4] = cyc.heaters0[4]
    /\ (LqgRan /\ cyc.end # "running") =>
         /\ Issued = 1
         /\ \A k \in 1 .. Len(cyc.writes) : cyc.writes[k][1] = 0
    /\ (PidRan /\ cyc.end # "running") =>
         /\ Issued = 4
         /\ \A k \in 1 .. Len(cyc.writes) : cyc.writes[k][1] = k - 1
         /\ LET t0 == gettemp(voltages[1])
                t1 == gettemp(voltages[2])
                int0 == IntAdd(cyc.ints0[1], t0)
                h0 == PidClamp(DriveNum(t0, int0), int0).h
                h1 == PidClamp(DriveNum(t1, cyc.ints0[2]), cyc.ints0[2]).h
            IN  \A k \in 1 .. Len(cyc.writes) :
                  cyc.writes[k][2] = (IF k = 4 THEN h0 ELSE h1)

====
